---- MODULE Spec2Model ----
\* Model of Vm::make (src/src/lib.rs): assembly of the boot source and the
\* device builders, the engine construction call, resume, and the
\* wait/status supervise loop.  The engine (vmm crate) is the environment:
\* each of its calls answers Ok or Err, and its event dispatch takes the
\* instance lock while the supervisor is inside event_manager.run().
EXTENDS Integers, Sequences, FiniteSets, TLC

\* ---------------------------------------------------------------- bounds
MaxExtraDisks == 2
MaxIdleBatches == 2

\* ------------------------------------------------------ program constants
CmdlineCapacity == 4096
GuestCid == 3

\* Option<T> is a sequence of length 0 (None) or 1 (Some).
None == <<>>
Some(v) == <<v>>
IsSome(o) == Len(o) = 1
Unwrap(o) == o[1]

\* nc.vm_mac.unwrap_or([...]) : the literal of the source, byte by byte.
DefaultMac == <<0, 2, 0, 0, 0, 0>>

unwrap_or(o, d) == IF IsSome(o) THEN Unwrap(o) ELSE d

\* MacAddr::from_bytes_unchecked(&mac) copies the six bytes.
MacAddr_from_bytes_unchecked(m) == [k \in 1..6 |-> m[k]]

\* format!("block{}", i + 0) for the i-th (0-based) element of extra_disks.
ExtraDriveId(i) == "block" \o ToString(i + 0)

RootDriveId == "block0"

\* ------------------------------------------------------------ the inputs
MacInputs == { <<2, 0, 0, 0, 0, 0>>, <<170, 187, 204, 221, 238, 255>> }

CmdlineLens == { 36, CmdlineCapacity, CmdlineCapacity + 1 }

Disk == [path : {"disk.img"}, read_only : BOOLEAN]

NetConfig == [tap_iface_name : {"mytap0"},
              vm_mac : {None} \cup { Some(m) : m \in MacInputs }]

DiskSeqs == UNION { [1..n -> Disk] : n \in 0..MaxExtraDisks }

Vm == [kernel_cmdline_len : CmdlineLens,
       vsock : {None, Some("/tmp/test.v.sock")},
       initrd : BOOLEAN,
       rootfs : {None} \cup { Some(d) : d \in Disk },
       extra_disks : DiskSeqs,
       net_config : {None} \cup { Some(nc) : nc \in NetConfig }]

\* Cmdline::try_from(&s, capacity): a string longer than the capacity is
\* always rejected; a shorter one may still be malformed.
Cmdline_try_from(len, capacity) ==
    IF len > capacity THEN {"Err"} ELSE {"Ok", "Err"}

VARIABLES
    vm,            \* self
    pc,            \* position of the call inside make
    i,             \* index of the extra_disks loop
    net_builder,   \* configs handed to NetBuilder::build, in order
    block,         \* configs handed to BlockBuilder::insert, in order
    vsock,         \* configs handed to VsockBuilder::insert, in order
    evmgrCalls,    \* calls of EventManager::new
    buildCalls,    \* calls of build_microvm_for_boot
    resumeCalls,   \* calls of resume_vm
    waitsDone,     \* returns of event_manager.run()
    idleBatches,   \* event batches that did not stop the guest
    reads,         \* values returned by shutdown_exit_code(), in order
    fresh,         \* a wait has returned since the last status read
    batchDone,     \* the current run() has dispatched its batch
    lock_holder,   \* owner of the Mutex<Vmm>
    poisoned,      \* the Mutex<Vmm> is poisoned
    exit_code,     \* Vmm::shutdown_exit_code
    stdout,        \* lines printed by make
    fault,         \* the step that failed, if any
    result         \* how make ended

vars == <<vm, pc, i, net_builder, block, vsock, evmgrCalls, buildCalls,
          resumeCalls, waitsDone, idleBatches, reads, fresh, batchDone,
          lock_holder, poisoned, exit_code, stdout, fault, result>>

devs == <<net_builder, block, vsock>>
calls == <<evmgrCalls, buildCalls, resumeCalls>>
loopv == <<waitsDone, idleBatches, reads, fresh, batchDone>>
engine == <<lock_holder, poisoned, exit_code>>

Init ==
    /\ vm \in Vm
    /\ pc = "clone_initrd"
    /\ i = 0
    /\ net_builder = <<>>
    /\ block = <<>>
    /\ vsock = <<>>
    /\ evmgrCalls = 0
    /\ buildCalls = 0
    /\ resumeCalls = 0
    /\ waitsDone = 0
    /\ idleBatches = 0
    /\ reads = <<>>
    /\ fresh = FALSE
    /\ batchDone = FALSE
    /\ lock_holder = "none"
    /\ poisoned = FALSE
    /\ exit_code = "None"
    /\ stdout = <<>>
    /\ fault = "none"
    /\ result = "none"

\* `?` on an Err: make returns Err(e) to its caller.
ReturnErr(what) ==
    /\ pc' = "done"
    /\ fault' = what
    /\ result' = "Err"

\* .unwrap() on an Err: the thread panics and unwinds out of make.
Panic(what) ==
    /\ pc' = "done"
    /\ fault' = what
    /\ result' = "panic"

Goto(l) ==
    /\ pc' = l
    /\ UNCHANGED <<fault, result>>

\* ------------------------------------------------ boot source, l. 67-78
CloneInitrd ==
    /\ pc = "clone_initrd"
    /\ \E r \in {"Ok", "Err"} :
         IF vm.initrd /\ r = "Err"
         THEN ReturnErr("initrd_clone")
         ELSE Goto("parse_cmdline")
    /\ UNCHANGED <<vm, i, devs, calls, loopv, engine, stdout>>

\* Variant: the parse error is noted but the call goes on.
ParseCmdline_IgnoresErr ==
    /\ pc = "parse_cmdline"
    /\ \E r \in Cmdline_try_from(vm.kernel_cmdline_len, CmdlineCapacity) :
         /\ pc' = "clone_kernel"
         /\ fault' = IF r = "Err" THEN "cmdline" ELSE fault
         /\ result' = result
    /\ UNCHANGED <<vm, i, devs, calls, loopv, engine, stdout>>

ParseCmdline ==
    /\ pc = "parse_cmdline"
    /\ \E r \in Cmdline_try_from(vm.kernel_cmdline_len, CmdlineCapacity) :
         IF r = "Err"
         THEN ReturnErr("cmdline")
         ELSE Goto("clone_kernel")
    /\ UNCHANGED <<vm, i, devs, calls, loopv, engine, stdout>>

CloneKernel ==
    /\ pc = "clone_kernel"
    /\ \E r \in {"Ok", "Err"} :
         IF r = "Err"
         THEN ReturnErr("kernel_clone")
         ELSE Goto("net")
    /\ UNCHANGED <<vm, i, devs, calls, loopv, engine, stdout>>

\* ------------------------------------------------- net device, l. 80-95
NetworkInterfaceConfig(nc) ==
    [iface_id |-> "net0",
     host_dev_name |-> nc.tap_iface_name,
     guest_mac |-> Some(MacAddr_from_bytes_unchecked(
                          unwrap_or(nc.vm_mac, DefaultMac)))]

BuildNet ==
    /\ pc = "net"
    /\ IF IsSome(vm.net_config)
       THEN /\ net_builder' =
                 Append(net_builder, NetworkInterfaceConfig(Unwrap(vm.net_config)))
            /\ \E r \in {"Ok", "Err"} :
                 IF r = "Err" THEN Panic("net") ELSE Goto("root")
       ELSE /\ net_builder' = net_builder
            /\ Goto("root")
    /\ UNCHANGED <<vm, i, block, vsock, calls, loopv, engine, stdout>>

\* ---------------------------------------------- block devices, l. 97-133
BlockDeviceConfig(id, root, disk) ==
    [drive_id |-> id,
     is_root_device |-> root,
     cache_type |-> "Unsafe",
     is_read_only |-> Some(disk.read_only),
     path_on_host |-> Some(disk.path)]

InsertRoot ==
    /\ pc = "root"
    /\ IF IsSome(vm.rootfs)
       THEN /\ block' =
                 Append(block, BlockDeviceConfig(RootDriveId, TRUE, Unwrap(vm.rootfs)))
            /\ \E r \in {"Ok", "Err"} :
                 IF r = "Err" THEN Panic("block") ELSE Goto("extra")
       ELSE /\ block' = block
            /\ Goto("extra")
    /\ UNCHANGED <<vm, i, net_builder, vsock, calls, loopv, engine, stdout>>

InsertExtra ==
    /\ pc = "extra"
    /\ i < Len(vm.extra_disks)
    /\ block' =
         Append(block, BlockDeviceConfig(ExtraDriveId(i), FALSE, vm.extra_disks[i + 1]))
    /\ \E r \in {"Ok", "Err"} :
         IF r = "Err"
         THEN Panic("block") /\ i' = i
         ELSE Goto("extra") /\ i' = i + 1
    /\ UNCHANGED <<vm, net_builder, vsock, calls, loopv, engine, stdout>>

ExtraDone ==
    /\ pc = "extra"
    /\ i = Len(vm.extra_disks)
    /\ Goto("vsock")
    /\ UNCHANGED <<vm, i, devs, calls, loopv, engine, stdout>>

\* ----------------------------------------------- vsock device, l. 135-143
VsockDeviceConfig(vpath) ==
    [vsock_id |-> None, guest_cid |-> GuestCid, uds_path |-> vpath]

InsertVsock ==
    /\ pc = "vsock"
    /\ IF IsSome(vm.vsock)
       THEN /\ vsock' = Append(vsock, VsockDeviceConfig(Unwrap(vm.vsock)))
            /\ \E r \in {"Ok", "Err"} :
                 IF r = "Err" THEN Panic("vsock") ELSE Goto("evmgr")
       ELSE /\ vsock' = vsock
            /\ Goto("evmgr")
    /\ UNCHANGED <<vm, i, net_builder, block, calls, loopv, engine, stdout>>

\* ------------------------------------- engine construction, l. 155-164
NewEventManager ==
    /\ pc = "evmgr"
    /\ evmgrCalls' = evmgrCalls + 1
    /\ \E r \in {"Ok", "Err"} :
         IF r = "Err" THEN Panic("evmgr") ELSE Goto("build")
    /\ UNCHANGED <<vm, i, devs, buildCalls, resumeCalls, loopv, engine, stdout>>

\* Variant: a failed construction is tried again.
BuildMicrovm_Retries ==
    /\ pc = "build"
    /\ buildCalls' = buildCalls + 1
    /\ \E r \in {"Ok", "Err"} :
         IF r = "Err" THEN Goto("build") ELSE Goto("resume_lock")
    /\ UNCHANGED <<vm, i, devs, evmgrCalls, resumeCalls, loopv, engine, stdout>>

BuildMicrovm ==
    /\ pc = "build"
    /\ buildCalls' = buildCalls + 1
    /\ \E r \in {"Ok", "Err"} :
         IF r = "Err" THEN ReturnErr("build") ELSE Goto("resume_lock")
    /\ UNCHANGED <<vm, i, devs, evmgrCalls, resumeCalls, loopv, engine, stdout>>

\* ------------------------------------------------------- resume, l. 165
ResumeLock ==
    /\ pc = "resume_lock"
    /\ lock_holder = "none"
    /\ IF poisoned
       THEN Panic("lock") /\ lock_holder' = lock_holder
       ELSE Goto("resume") /\ lock_holder' = "supervisor"
    /\ UNCHANGED <<vm, i, devs, calls, loopv, poisoned, exit_code, stdout>>

\* The guard is a temporary of the statement: it is dropped on both ways out.
ResumeVm ==
    /\ pc = "resume"
    /\ lock_holder = "supervisor"
    /\ resumeCalls' = resumeCalls + 1
    /\ lock_holder' = "none"
    /\ \E r \in {"Ok", "Err"} :
         IF r = "Err" THEN ReturnErr("resume") ELSE Goto("run")
    /\ UNCHANGED <<vm, i, devs, evmgrCalls, buildCalls, loopv, poisoned,
                   exit_code, stdout>>

\* ------------------------------------------- supervise loop, l. 166-177
\* event_manager.run() returns once it has dispatched a batch of events.
WaitReturn ==
    /\ pc = "run"
    /\ batchDone
    /\ lock_holder = "none"
    /\ batchDone' = FALSE
    /\ fresh' = TRUE
    /\ waitsDone' = waitsDone + 1
    /\ Goto("check_lock")
    /\ UNCHANGED <<vm, i, devs, calls, idleBatches, reads, engine, stdout>>

\* event_manager.run() returns Err: .unwrap() panics.
WaitFail ==
    /\ pc = "run"
    /\ ~batchDone
    /\ lock_holder = "none"
    /\ Panic("run")
    /\ UNCHANGED <<vm, i, devs, calls, loopv, engine, stdout>>

CheckLock ==
    /\ pc = "check_lock"
    /\ lock_holder = "none"
    /\ IF poisoned
       THEN Panic("lock") /\ lock_holder' = lock_holder
       ELSE Goto("check_read") /\ lock_holder' = "supervisor"
    /\ UNCHANGED <<vm, i, devs, calls, loopv, poisoned, exit_code, stdout>>

\* Variant: the clean status does not leave the loop.
CheckReadOk_Continues ==
    /\ pc = "check_read"
    /\ lock_holder = "supervisor"
    /\ exit_code = "Ok"
    /\ reads' = Append(reads, exit_code)
    /\ fresh' = FALSE
    /\ lock_holder' = "none"
    /\ Goto("run")
    /\ UNCHANGED <<vm, i, devs, calls, waitsDone, idleBatches, batchDone,
                   poisoned, exit_code, stdout>>

\* Variant: an abnormal status is returned as an error.
CheckReadOther_ReturnsErr ==
    /\ pc = "check_read"
    /\ lock_holder = "supervisor"
    /\ exit_code = "Other"
    /\ reads' = Append(reads, exit_code)
    /\ fresh' = FALSE
    /\ stdout' = Append(stdout, "vm died??")
    /\ lock_holder' = "none"
    /\ pc' = "done"
    /\ result' = "Err"
    /\ UNCHANGED <<vm, i, devs, calls, waitsDone, idleBatches, batchDone,
                   poisoned, exit_code, fault>>

\* Variant: the guard outlives the match and is still held in the next wait.
CheckReadNone_KeepsLock ==
    /\ pc = "check_read"
    /\ lock_holder = "supervisor"
    /\ exit_code = "None"
    /\ reads' = Append(reads, exit_code)
    /\ fresh' = FALSE
    /\ lock_holder' = lock_holder
    /\ Goto("run")
    /\ UNCHANGED <<vm, i, devs, calls, waitsDone, idleBatches, batchDone,
                   poisoned, exit_code, stdout>>

\* Variant: `continue` re-reads the status without waiting again.
CheckReadNone_SkipsWait ==
    /\ pc = "check_read"
    /\ lock_holder = "supervisor"
    /\ exit_code = "None"
    /\ reads' = Append(reads, exit_code)
    /\ fresh' = FALSE
    /\ lock_holder' = "none"
    /\ Goto("check_lock")
    /\ UNCHANGED <<vm, i, devs, calls, waitsDone, idleBatches, batchDone,
                   poisoned, exit_code, stdout>>

\* The guard is a temporary of the match scrutinee: it lives through the
\* arm and is dropped when control leaves the match.
\* Some(FcExitCode::Ok) => break, then Ok(()).
CheckReadOk ==
    /\ pc = "check_read"
    /\ lock_holder = "supervisor"
    /\ exit_code = "Ok"
    /\ reads' = Append(reads, exit_code)
    /\ fresh' = FALSE
    /\ lock_holder' = "none"
    /\ pc' = "done"
    /\ result' = "Ok"
    /\ UNCHANGED <<vm, i, devs, calls, waitsDone, idleBatches, batchDone,
                   poisoned, exit_code, stdout, fault>>

\* Some(_) => { println!("vm died??"); return Ok(()); }
CheckReadOther ==
    /\ pc = "check_read"
    /\ lock_holder = "supervisor"
    /\ exit_code = "Other"
    /\ reads' = Append(reads, exit_code)
    /\ fresh' = FALSE
    /\ stdout' = Append(stdout, "vm died??")
    /\ lock_holder' = "none"
    /\ pc' = "done"
    /\ result' = "Ok"
    /\ UNCHANGED <<vm, i, devs, calls, waitsDone, idleBatches, batchDone,
                   poisoned, exit_code, fault>>

\* None => continue
CheckReadNone ==
    /\ pc = "check_read"
    /\ lock_holder = "supervisor"
    /\ exit_code = "None"
    /\ reads' = Append(reads, exit_code)
    /\ fresh' = FALSE
    /\ lock_holder' = "none"
    /\ Goto("run")
    /\ UNCHANGED <<vm, i, devs, calls, waitsDone, idleBatches, batchDone,
                   poisoned, exit_code, stdout>>

\* ------------------------------------------------------------ the engine
\* The instance exists once build_microvm_for_boot has returned it; the
\* engine takes its lock before resume or from the dispatch inside run().
EngineLock ==
    /\ pc \in {"resume_lock", "run"}
    /\ lock_holder = "none"
    /\ ~poisoned
    /\ ~batchDone
    /\ lock_holder' = "engine"
    /\ UNCHANGED <<vm, pc, i, devs, calls, loopv, poisoned, exit_code,
                   stdout, fault, result>>

\* One batch of events handled under the lock; it may stop the guest.
EngineProcess ==
    /\ pc = "run"
    /\ lock_holder = "engine"
    /\ ~batchDone
    /\ \E ev \in {"None", "Ok", "Other"} :
         /\ ev = "None" => idleBatches < MaxIdleBatches
         /\ exit_code' = IF exit_code = "None" THEN ev ELSE exit_code
         /\ idleBatches' = IF ev = "None" THEN idleBatches + 1 ELSE idleBatches
    /\ batchDone' = TRUE
    /\ UNCHANGED <<vm, pc, i, devs, calls, waitsDone, reads, fresh,
                   lock_holder, poisoned, stdout, fault, result>>

EngineUnlock ==
    /\ lock_holder = "engine"
    /\ lock_holder' = "none"
    /\ UNCHANGED <<vm, pc, i, devs, calls, loopv, poisoned, exit_code,
                   stdout, fault, result>>

\* An engine thread panics while holding the guard: the mutex is poisoned.
EnginePanic ==
    /\ lock_holder = "engine"
    /\ lock_holder' = "none"
    /\ poisoned' = TRUE
    /\ UNCHANGED <<vm, pc, i, devs, calls, loopv, exit_code,
                   stdout, fault, result>>

Next ==
    \/ CloneInitrd
    \/ ParseCmdline
    \/ CloneKernel
    \/ BuildNet
    \/ InsertRoot
    \/ InsertExtra
    \/ ExtraDone
    \/ InsertVsock
    \/ NewEventManager
    \/ BuildMicrovm
    \/ ResumeLock
    \/ ResumeVm
    \/ WaitReturn
    \/ WaitFail
    \/ CheckLock
    \/ CheckReadOk
    \/ CheckReadOther
    \/ CheckReadNone
    \/ EngineLock
    \/ EngineProcess
    \/ EngineUnlock
    \/ EnginePanic

Spec == Init /\ [][Next]_vars

\* Threads keep running: some enabled step is eventually taken.
LiveSpec == Init /\ [][Next]_vars /\ WF_vars(Next)

TypeOK ==
    /\ vm \in Vm
    /\ pc \in {"clone_initrd", "parse_cmdline", "clone_kernel", "net", "root",
               "extra", "vsock", "evmgr", "build", "resume_lock", "resume",
               "run", "check_lock", "check_read", "done"}
    /\ i \in 0..Len(vm.extra_disks)
    /\ lock_holder \in {"none", "supervisor", "engine"}
    /\ exit_code \in {"None", "Ok", "Other"}
    /\ result \in {"none", "Ok", "Err", "panic"}
    /\ (pc = "done") = (result # "none")

\* =============================================================== claims
Last(q) == q[Len(q)]

\* The block loop has run to its end and make is still going.
BlocksInserted ==
    pc \in {"vsock", "evmgr", "build", "resume_lock", "resume", "run",
            "check_lock", "check_read"}

\* C1: with a root disk and K extra disks, the insertions made by make are
\* exactly K+1, with ids block0..blockK in input order, the root flag on
\* block0 only, and no drive_id used twice.
C1_BlockIdsSequential ==
    (IsSome(vm.rootfs) /\ BlocksInserted) =>
        /\ Len(block) = Len(vm.extra_disks) + 1
        /\ block[1].drive_id = "block0"
        /\ block[1].is_root_device
        /\ \A j \in 1..Len(vm.extra_disks) :
             /\ block[j + 1].drive_id = "block" \o ToString(j)
             /\ ~block[j + 1].is_root_device
        /\ \A a, b \in 1..Len(block) :
             a # b => block[a].drive_id # block[b].drive_id

\* C2: the MAC handed to the network builder for net0 is 02:00:00:00:00:00
\* when vm_mac is None, and m unchanged when vm_mac is Some(m).
C2_ResolvedMac ==
    \A n \in 1..Len(net_builder) :
        /\ net_builder[n].iface_id = "net0"
        /\ net_builder[n].guest_mac =
             Some(IF IsSome(Unwrap(vm.net_config).vm_mac)
                  THEN Unwrap(Unwrap(vm.net_config).vm_mac)
                  ELSE <<2, 0, 0, 0, 0, 0>>)

AbnormalEnd == pc = "done" /\ reads # <<>> /\ Last(reads) = "Other"
CleanEnd == pc = "done" /\ reads # <<>> /\ Last(reads) = "Ok"

\* The value make returns after a clean exit.
CleanExitResult == "Ok"

\* C3 (as stated): after an abnormal exit status make returns a value that
\* is neither an error nor the value it returns after a clean exit.
C3_AbnormalResultDistinct ==
    AbnormalEnd => (result # "Err" /\ result # CleanExitResult)

\* C3 (amended): after an abnormal exit status make returns Ok(()), the same
\* value as after a clean exit and not an error; the two runs differ only in
\* the line "vm died??" that the abnormal one prints before returning.
C3_AbnormalReturnsOkAndPrints ==
    /\ AbnormalEnd => (result = CleanExitResult /\ stdout = <<"vm died??">>)
    /\ CleanEnd => (result = CleanExitResult /\ stdout = <<>>)

C3_Witness == AbnormalEnd /\ Len(reads) >= 2

\* C4: when a device builder (net build, block insert, vsock insert)
\* rejects a configuration, make ends by returning an error value, and the
\* engine construction call is not reached.
C4_BuilderRejectionReturnsErr ==
    fault \in {"net", "block", "vsock"} =>
        (pc = "done" /\ result = "Err" /\ buildCalls = 0)

NoEngineOps ==
    /\ net_builder = <<>>
    /\ block = <<>>
    /\ vsock = <<>>
    /\ evmgrCalls = 0
    /\ buildCalls = 0
    /\ resumeCalls = 0
    /\ waitsDone = 0
    /\ reads = <<>>

\* C5: a kernel_cmdline longer than 4096 bytes, or one that fails parsing,
\* makes make return an error with no engine operation performed: no
\* builder call, no event manager, no construction, no resume, no wait.
C5_CmdlineRejectedFirst ==
    /\ fault = "cmdline" => (pc = "done" /\ result = "Err" /\ NoEngineOps)
    /\ (vm.kernel_cmdline_len > 4096
          /\ pc \notin {"clone_initrd", "parse_cmdline"}) =>
        (pc = "done" /\ result = "Err" /\ NoEngineOps)

C5_Witness ==
    pc = "done" /\ fault = "cmdline" /\ vm.kernel_cmdline_len > 4096

NonNoneReads == SelectSeq(reads, LAMBDA c : c # "None")

\* C6: once the guest has reported the clean exit status, and as long as
\* the instance lock is not poisoned, make eventually returns success with
\* exactly one non-none status read, the clean one; a clean read ends the
\* call at once, and after the return no wait and no read happens.
C6_CleanExitReturnsOk ==
    /\ [][(reads' # reads /\ Last(reads') = "Ok")
            => (pc' = "done" /\ result' = "Ok")]_vars
    /\ [][pc = "done" => (waitsDone' = waitsDone /\ reads' = reads)]_vars
    /\ ([]~poisoned) =>
         ((exit_code = "Ok") ~>
            (pc = "done" /\ result = "Ok" /\ NonNoneReads = <<"Ok">>))

C6_Witness ==
    CleanEnd /\ result = "Ok" /\ Len(reads) >= 2 /\ NonNoneReads = <<"Ok">>

\* C7: when EventManager::new fails, event_manager.run fails, or the
\* instance lock is poisoned, make ends by returning an error value.
C7_EngineFailureReturnsErr ==
    fault \in {"evmgr", "run", "lock"} => (pc = "done" /\ result = "Err")

\* C8: every read of shutdown_exit_code follows a wait completed in the
\* same iteration: none before the first wait has returned, and never two
\* reads without a completed wait in between.
C8_ReadFollowsWait ==
    /\ pc \in {"check_lock", "check_read"} =>
         (fresh /\ waitsDone = Len(reads) + 1)
    /\ pc \notin {"check_lock", "check_read", "done"} =>
         (~fresh /\ waitsDone = Len(reads))
    /\ Len(reads) <= waitsDone

C8_Witness == pc = "check_read" /\ Len(reads) >= 1

\* C9: the supervisor does not hold the instance lock while it is in
\* event_manager.run(); it holds it only inside the resume statement and
\* the status match, so the engine can take it between iterations.
C9_NoLockAcrossWait ==
    /\ pc = "run" => lock_holder # "supervisor"
    /\ lock_holder = "supervisor" => pc \in {"resume", "check_read"}

C9_Witness == pc = "run" /\ lock_holder = "engine" /\ Len(reads) >= 1

\* C10: construction is called at most once and resume at most once;
\* resume comes after a successful construction and before the first wait;
\* a failed construction or resume returns an error with no wait, no
\* status read and no second construction.
C10_BuildAndResumeOnce ==
    /\ buildCalls <= 1
    /\ resumeCalls <= 1
    /\ resumeCalls = 1 => (buildCalls = 1 /\ fault # "build")
    /\ pc = "resume" => waitsDone = 0
    /\ (pc \in {"run", "check_lock", "check_read"} \/ waitsDone > 0) =>
         (resumeCalls = 1 /\ fault # "resume")
    /\ fault \in {"build", "resume"} =>
         (pc = "done" /\ result = "Err" /\ buildCalls = 1
            /\ waitsDone = 0 /\ reads = <<>>)

C10_Witness ==
    pc = "done" /\ fault = "resume" /\ buildCalls = 1 /\ resumeCalls = 1

====
